---------------------------- MODULE Spec2Model ----------------------------
(***************************************************************************)
(* Booking subsystem of the Express + Turso (libSQL) backend, server.js:   *)
(* the `clients` table and the handlers POST /api/clients,                 *)
(* GET /api/clients, PUT /api/clients/:id, DELETE /api/clients/:id,        *)
(* GET /api/clients/search and GET /api/clients/summary.                   *)
(*                                                                         *)
(* Strings are sequences of character codes (ASCII), so that trimming, the *)
(* YYYY-MM-DD pattern, date parsing and SQL's text comparison are computed *)
(* on characters as the code and the store compute them.  A JS value is a  *)
(* record tagged by its typeof: undefined, null, string, number or object. *)
(*                                                                         *)
(* A handler runs synchronously up to its first `await db.execute`, so a   *)
(* request is one step per store call: the synchronous validation that     *)
(* ends in a response or in a pending store call, then one step per store  *)
(* call, each executed atomically by the store.  The store is assumed to   *)
(* execute every statement it is handed (rowsAffected is always a number   *)
(* with @libsql/client, so the `select changes()` fallback is not taken).  *)
(* The column created_at takes the store's clock at the insert; the clock  *)
(* is a counter that advances in the specifications that say so.           *)
(*                                                                         *)
(* Spec runs creates, deletes and gets concurrently; SpecCap runs creates  *)
(* and deletes concurrently up to the capacity of a day; SpecSeq runs      *)
(* creates one at a time up to the capacity; SpecInput and SpecUpdate run  *)
(* requests one at a time over every kind of create and update input.      *)
(* SpecFail runs every kind of refusal up to the capacity; SpecRead runs   *)
(* creates, deletes and gets, and SpecFree creates up to the capacity and  *)
(* deletes, both one request at a time with the history of answers kept;   *)
(* SpecReport runs the search and the summary over bookings of several     *)
(* months; SpecFrame runs updates while the clock advances; SpecText runs  *)
(* every kind of phone and notes; SpecAll interleaves all six operations.  *)
(* SpecLive interleaves creates, updates and deletes whose store calls     *)
(* return or throw, with values that cannot be converted to a string, and  *)
(* keeps per handler the number of responses sent for its request.         *)
(***************************************************************************)
EXTENDS Integers, Sequences, FiniteSets

VARIABLES
    clients,   \* the rows of the clients table: [id, day, name, phone, notes]
    pc,        \* per process, the store call its handler awaits, or "idle"
    loc,       \* per process, the locals of the handler in progress
    last,      \* the request whose handler ended last, with the response
               \* sent for it
    assigned,  \* history: the ids that inserts have returned so far
    now,       \* the store's clock, the value of datetime('now')
    prev,      \* history: the request answered before the last one, the
               \* store before its answer and before the last answer
    inserted,  \* history: the ids of the stored rows, in order of insertion
    track      \* history: per process, whether a request has reached its
               \* handler, whether the handler has ended, and the number
               \* of responses sent for the request

vars == <<clients, pc, loc, last, assigned, now, prev, inserted, track>>

(***************************************************************************)
(* Bounds of the model.                                                    *)
(***************************************************************************)
NumProcs == 2
MaxId == 2
MaxIdInput == 1
MaxIdCap == 12
MaxIdRead == 3
MaxIdReport == 2
MaxIdFrame == 2
MaxNow == 1
MaxIdLive == 2

Procs == 1..NumProcs

(***************************************************************************)
(* Characters and strings.                                                 *)
(***************************************************************************)
ChSpace == 32
ChDash == 45
ChZero == 48
ChNine == 57
ChA == 97

IsWs(c) == c \in {9, 10, 11, 12, 13, 32}
IsDigit(c) == c >= ChZero /\ c <= ChNine

RECURSIVE TrimStart(_)
TrimStart(s) ==
    IF s = <<>> THEN <<>>
    ELSE IF IsWs(Head(s)) THEN TrimStart(Tail(s))
    ELSE s

RECURSIVE TrimEnd(_)
TrimEnd(s) ==
    IF s = <<>> THEN <<>>
    ELSE IF IsWs(s[Len(s)]) THEN TrimEnd(SubSeq(s, 1, Len(s) - 1))
    ELSE s

Trim(s) == TrimEnd(TrimStart(s))

RECURSIVE DigitsOf(_)
DigitsOf(n) ==
    IF n < 10 THEN <<ChZero + n>>
    ELSE Append(DigitsOf(n \div 10), ChZero + (n % 10))

RECURSIVE PadStart(_, _)
PadStart(s, w) == IF Len(s) >= w THEN s ELSE PadStart(<<ChZero>> \o s, w)

RECURSIVE DigitsValue(_)
DigitsValue(s) ==
    IF s = <<>> THEN 0
    ELSE 10 * DigitsValue(SubSeq(s, 1, Len(s) - 1)) + (s[Len(s)] - ChZero)

\* String(n) of an integer.
NumToString(n) == IF n < 0 THEN <<ChDash>> \o DigitsOf(0 - n) ELSE DigitsOf(n)

\* The longest prefix of digits.
RECURSIVE DigitPrefix(_)
DigitPrefix(s) ==
    IF s = <<>> \/ ~IsDigit(Head(s)) THEN <<>>
    ELSE <<Head(s)>> \o DigitPrefix(Tail(s))

\* SQL's lower(): the letters A..Z of ASCII to a..z.
Lower(s) == [i \in 1..Len(s) |-> IF s[i] >= 65 /\ s[i] <= 90 THEN s[i] + 32 ELSE s[i]]

\* SQL's `text like pattern`: % matches any run of characters, _ any one
\* character, and a letter of ASCII matches in either case.
RECURSIVE Like(_, _)
Like(text, pattern) ==
    IF pattern = <<>> THEN text = <<>>
    ELSE IF Head(pattern) = 37
    THEN Like(text, Tail(pattern)) \/ (text # <<>> /\ Like(Tail(text), pattern))
    ELSE IF text = <<>> THEN FALSE
    ELSE IF Head(pattern) = 95 THEN Like(Tail(text), Tail(pattern))
    ELSE /\ Lower(<<Head(text)>>) = Lower(<<Head(pattern)>>)
         /\ Like(Tail(text), Tail(pattern))

\* SQL's comparison of two texts (BINARY collation): character by character,
\* a proper prefix first.
RECURSIVE TextLess(_, _)
TextLess(a, b) ==
    IF b = <<>> THEN FALSE
    ELSE IF a = <<>> THEN TRUE
    ELSE IF Head(a) # Head(b) THEN Head(a) < Head(b)
    ELSE TextLess(Tail(a), Tail(b))

(***************************************************************************)
(* JS values.                                                              *)
(***************************************************************************)
Undefined == [t |-> "undefined"]
Null == [t |-> "null"]
Str(s) == [t |-> "string", s |-> s]
Num(n) == [t |-> "number", n |-> n]
\* An object parsed from JSON: {} and the like, which String() renders as
\* "[object Object]", and {"toString": null}, whose own property hides
\* Object.prototype.toString, so that String() throws a TypeError.
PlainObject == [t |-> "object", throws |-> FALSE]
Unprintable == [t |-> "object", throws |-> TRUE]

Truthy(v) ==
    CASE v.t = "string" -> v.s # <<>>
      [] v.t = "number" -> v.n # 0
      [] v.t = "object" -> TRUE
      [] OTHER -> FALSE

\* String(v) throws: no toString or valueOf of v gives a primitive.
StringThrows(v) == v.t = "object" /\ v.throws

JsString(v) ==
    CASE v.t = "string" -> v.s
      [] v.t = "number" -> DigitsOf(v.n)
      [] v.t = "object" -> <<91, 111, 98, 106, 101, 99, 116, 32,
                             79, 98, 106, 101, 99, 116, 93>>
      [] v.t = "null" -> <<110, 117, 108, 108>>
      [] OTHER -> <<117, 110, 100, 101, 102, 105, 110, 101, 100>>

\* parseInt(v, 10): leading whitespace, an optional sign, then the longest
\* prefix of digits; NaN when there is none.
ParseInt(v) ==
    LET s == TrimStart(JsString(v))
        neg == s # <<>> /\ Head(s) = ChDash
        body == IF s # <<>> /\ Head(s) \in {ChDash, 43} THEN Tail(s) ELSE s
        ds == DigitPrefix(body)
    IN  IF ds = <<>> THEN [nan |-> TRUE, n |-> 0]
        ELSE [nan |-> FALSE,
              n |-> IF neg THEN 0 - DigitsValue(ds) ELSE DigitsValue(ds)]

(***************************************************************************)
(* The day: /^\d{4}-\d{2}-\d{2}$/ and new Date(day + 'T00:00:00Z').        *)
(***************************************************************************)
DayPattern(s) ==
    /\ Len(s) = 10
    /\ \A i \in {1, 2, 3, 4, 6, 7, 9, 10} : IsDigit(s[i])
    /\ s[5] = ChDash
    /\ s[8] = ChDash

YearOf(s) == DigitsValue(SubSeq(s, 1, 4))
MonthOf(s) == DigitsValue(SubSeq(s, 6, 7))
DateOf(s) == DigitsValue(SubSeq(s, 9, 10))

\* The engine's ISO date parser (V8, the engine of Node) takes a month in
\* 1..12 and a day in 1..31, whatever the month; anything else is NaN.
NaN == [nan |-> TRUE, t |-> 0]
IsMonth(m) == m >= 1 /\ m <= 12
IsDay(d) == d >= 1 /\ d <= 31

\* MakeDay: the day number (days since 1970-01-01) of the first day of the
\* month, plus date - 1, so that a date past the month's end runs into the
\* next month.
MakeDay(y, m, d) ==
    LET yy == IF m <= 2 THEN y - 1 ELSE y
        era == yy \div 400
        yoe == yy - era * 400
        mp == (m + 9) % 12
        doy == (153 * mp + 2) \div 5 + d - 1
        doe == yoe * 365 + yoe \div 4 - yoe \div 100 + doy
    IN  era * 146097 + doe - 719468

\* new Date(day + 'T00:00:00Z'): NaN, or the time value t in days.
DateParse(s) ==
    IF IsMonth(MonthOf(s)) /\ IsDay(DateOf(s))
    THEN [nan |-> FALSE, t |-> MakeDay(YearOf(s), MonthOf(s), DateOf(s))]
    ELSE NaN

\* Date.prototype.getUTCDay of a valid date: 0 = Sunday ... 6 = Saturday.
GetUTCDay(t) == (t + 4) % 7

\* A variant that forgets Sunday.
IsWeekendSaturdayOnly(weekday) == weekday = 6

IsWeekend(weekday) == weekday = 0 \/ weekday = 6

\* The calendar itself, for the claims: the days a month really has.
IsLeapYear(y) == (y % 4 = 0 /\ y % 100 # 0) \/ y % 400 = 0

DaysInMonth(y, m) ==
    IF m = 2 THEN (IF IsLeapYear(y) THEN 29 ELSE 28)
    ELSE IF m \in {4, 6, 9, 11} THEN 30
    ELSE 31

IsRealDate(s) ==
    /\ DayPattern(s)
    /\ IsMonth(MonthOf(s))
    /\ DateOf(s) >= 1
    /\ DateOf(s) <= DaysInMonth(YearOf(s), MonthOf(s))

(***************************************************************************)
(* Number(req.params.id) for a decimal literal: an optional sign, digits,  *)
(* and an optional fraction; any other text is NaN.  The result is either  *)
(* an integer n or not an integer (a fraction or NaN).                     *)
(***************************************************************************)
AllDigits(s) == s # <<>> /\ \A i \in 1..Len(s) : IsDigit(s[i])

JsNumber(s) ==
    IF AllDigits(s) THEN [isInteger |-> TRUE, n |-> DigitsValue(s)]
    ELSE IF Len(s) > 1 /\ s[1] = ChDash /\ AllDigits(Tail(s))
    THEN [isInteger |-> TRUE, n |-> 0 - DigitsValue(Tail(s))]
    ELSE [isInteger |-> FALSE, n |-> 0]

(***************************************************************************)
(* The clients table: id integer primary key, day, name, phone, notes,    *)
(* created_at default (datetime('now')).                                   *)
(***************************************************************************)
MaxPerDay == 10

Ids(tbl) == {r.id : r \in tbl}

Max(S) == CHOOSE x \in S : \A y \in S : y <= x
Min(S) == CHOOSE x \in S : \A y \in S : x <= y

\* An integer primary key without AUTOINCREMENT: the store gives a new row
\* one more than the largest id in the table, and 1 in an empty table.
NewRowId(tbl) == IF tbl = {} THEN 1 ELSE Max(Ids(tbl)) + 1

\* select count(*) as c from clients where day = ?
CountDay(tbl, day) == Cardinality({r \in tbl : r.day = day})

\* insert into clients (day, name, phone, notes) values (?, ?, ?, ?) returning ...
InsertRow(tbl, day, name, phone, notes, at) ==
    [id |-> NewRowId(tbl), day |-> day, name |-> name, phone |-> phone,
     notes |-> notes, created_at |-> at]

\* A variant that orders by id descending.
RECURSIVE OrderByIdDesc(_)
OrderByIdDesc(S) ==
    IF S = {} THEN <<>>
    ELSE LET r == CHOOSE x \in S : x.id = Max(Ids(S))
         IN  <<r>> \o OrderByIdDesc(S \ {r})

\* ... order by id asc
RECURSIVE OrderById(_)
OrderById(S) ==
    IF S = {} THEN <<>>
    ELSE LET r == CHOOSE x \in S : x.id = Min(Ids(S))
         IN  <<r>> \o OrderById(S \ {r})

\* A variant whose where clause is inverted.
SelectDayInverted(tbl, day) == OrderById({r \in tbl : r.day # day})

\* select ... from clients where day = ? order by id asc
SelectDay(tbl, day) == OrderById({r \in tbl : r.day = day})

\* The texts of a set in ascending order.
RECURSIVE OrderText(_)
OrderText(S) ==
    IF S = {} THEN <<>>
    ELSE LET t == CHOOSE x \in S : \A y \in S : ~TextLess(y, x)
         IN  <<t>> \o OrderText(S \ {t})

\* coalesce(v, '') of a nullable text column.
Coalesce(v) == IF v.t = "null" THEN <<>> ELSE v.s

\* json_object('id', id, 'name', name, 'phone', coalesce(phone, ''),
\*             'notes', coalesce(notes, ''))
ClientsJson(r) ==
    [id |-> r.id, name |-> r.name, phone |-> Coalesce(r.phone),
     notes |-> Coalesce(r.notes)]

\* ... where day >= ? and day < ?
InRange(tbl, start, end) ==
    {r \in tbl : ~TextLess(r.day, start) /\ TextLess(r.day, end)}

\* select day, count(*) as count, json_group_array(clients_json) as clients
\* from (select ... where day >= ? and day < ? order by day asc, id asc)
\* group by day.  The clients column is the list of the objects; its
\* encoding as JSON text is not modelled.
SummaryRows(tbl, start, end) ==
    LET sel == InRange(tbl, start, end)
        days == OrderText({r.day : r \in sel})
        group(d) == OrderById({r \in sel : r.day = d})
    IN  [i \in 1..Len(days) |->
            [day |-> days[i],
             count |-> Cardinality({r \in sel : r.day = days[i]}),
             clients |-> [j \in 1..Len(group(days[i])) |->
                             ClientsJson(group(days[i])[j])]]]

\* ... order by day asc, id asc
RECURSIVE OrderByDayId(_)
OrderByDayId(S) ==
    IF S = {} THEN <<>>
    ELSE LET r == CHOOSE x \in S :
                     \A y \in S :
                        \/ TextLess(x.day, y.day)
                        \/ (x.day = y.day /\ x.id <= y.id)
         IN  <<r>> \o OrderByDayId(S \ {r})

\* select ... from clients where lower(name) like lower(?)
\* [and day >= ? and day < ?] order by day asc, id asc
SearchRows(tbl, term, ranged, start, end) ==
    OrderByDayId({r \in (IF ranged THEN InRange(tbl, start, end) ELSE tbl) :
                    Like(Lower(r.name), Lower(term))})

\* A variant that clears the text columns it is not given.
SetFieldsClearing(r, fields, args) ==
    [f \in DOMAIN r |->
        IF \E i \in 1..Len(fields) : fields[i] = f
        THEN args[CHOOSE i \in 1..Len(fields) : fields[i] = f]
        ELSE IF f \in {"phone", "notes"} THEN Null
        ELSE r[f]]

\* update clients set <fields> where id = ?
RECURSIVE SetFields(_, _, _)
SetFields(r, fields, args) ==
    IF fields = <<>> THEN r
    ELSE SetFields([r EXCEPT ![Head(fields)] = Head(args)], Tail(fields), Tail(args))

\* A variant without the where clause.
UpdateRowsAll(tbl, fields, args, id) == {SetFields(r, fields, args) : r \in tbl}

UpdateRows(tbl, fields, args, id) ==
    {IF r.id = id THEN SetFields(r, fields, args) ELSE r : r \in tbl}

\* A variant whose where clause is inverted.
DeleteRowsInverted(tbl, id) == {r \in tbl : r.id = id}

\* A variant whose where clause is id >= ?.
DeleteRowsFrom(tbl, id) == {r \in tbl : r.id < id}

\* A variant that removes nothing.
DeleteRowsNone(tbl, id) == {r \in tbl : r.id # id \/ r.id = id}

\* delete from clients where id = ?
DeleteRows(tbl, id) == {r \in tbl : r.id # id}

\* rs.rowsAffected of an update or delete ... where id = ?
RowsAffected(tbl, id) == Cardinality({r \in tbl : r.id = id})

(***************************************************************************)
(* Responses: res.status(..).json(..).                                     *)
(***************************************************************************)
ErrRequired == "day y name requeridos"
ErrPhoneType == "phone debe ser texto"
ErrNotesType == "notes debe ser texto"
ErrNameRequired == "name requerido"
ErrFormat == "Formato de day invalido. Usa YYYY-MM-DD"
ErrInvalidDate == "Fecha invalida"
ErrWeekend == "Solo se permiten clientes de lunes a viernes"
ErrCapacity == "Maximo 10 clientes por dia"
ErrInvalidId == "id invalido"
ErrNoChanges == "Sin cambios a guardar"
ErrNotFound == "Cliente no encontrado"
ErrDayParam == "query param day requerido (YYYY-MM-DD)"
ErrYearMonth == "year y month requeridos"
ErrNameParam == "Parametro name requerido"
\* err.message of the TypeError of a failed conversion to a string, of a
\* failed store call, and the answer of the framework's error handler.
ErrConvert == "Cannot convert object to primitive value"
ErrStore == "store error"
ErrInternal == "Internal Server Error"

Fail(status, error) == [status |-> status, ok |-> FALSE, error |-> error]
\* No response was sent for the request.
NoResponse == [status |-> 0, ok |-> FALSE, error |-> "no response"]

NoLoc == [op |-> "none"]
NoLast == [op |-> "none"]
NoPrev == [answer |-> NoLast, before |-> {}, lastBefore |-> {}]
NoTrack == [state |-> "none", sent |-> 0]

(***************************************************************************)
(* POST /api/clients                                                       *)
(***************************************************************************)
IsTextOrAbsent(v) == v.t \in {"undefined", "null", "string"}

\* const trimmed = v == null ? null : v.trim();
\* const safe = trimmed && trimmed.length ? trimmed : null;
SafeText(v) ==
    IF v.t \in {"undefined", "null"} THEN Null
    ELSE IF Trim(v.s) # <<>> THEN Str(Trim(v.s))
    ELSE Null

\* A variant that tests getUTCDay against 7 for Saturday.
WeekdayRefusedSundayOnly(t) == GetUTCDay(t) = 0 \/ GetUTCDay(t) = 7

\* The weekday test of the create handler.
WeekdayRefused(t) == IsWeekend(GetUTCDay(t))

\* The synchronous part of the handler: the error it answers with, or "" when
\* the request goes on to the store.
CreateError(body) ==
    IF ~Truthy(body.day) \/ ~Truthy(body.name) THEN ErrRequired
    ELSE IF ~IsTextOrAbsent(body.phone) THEN ErrPhoneType
    ELSE IF ~IsTextOrAbsent(body.notes) THEN ErrNotesType
    ELSE IF Trim(JsString(body.name)) = <<>> THEN ErrNameRequired
    ELSE IF StringThrows(body.day) THEN ErrConvert
    ELSE IF ~DayPattern(JsString(body.day)) THEN ErrFormat
    ELSE IF DateParse(JsString(body.day)).nan THEN ErrInvalidDate
    ELSE IF WeekdayRefused(DateParse(JsString(body.day)).t) THEN ErrWeekend
    ELSE ""

\* String(name) throws before the try block is entered: the async handler
\* ends with its promise rejected and has sent nothing.
CreateThrows(body) ==
    /\ Truthy(body.day) /\ Truthy(body.name)
    /\ IsTextOrAbsent(body.phone) /\ IsTextOrAbsent(body.notes)
    /\ StringThrows(body.name)

\* What the framework does with a handler's rejected promise: Express 4
\* does not look at it and the request is left without a response;
\* Express 5 hands it to its error handler, which answers 500.
UncaughtOutcomes == {NoResponse, Fail(500, ErrInternal)}

CreateStart(p, body) ==
    /\ pc[p] = "idle"
    /\ IF CreateThrows(body)
       THEN /\ \E r \in UncaughtOutcomes :
                  last' = [op |-> "create", req |-> body, res |-> r]
            /\ UNCHANGED <<pc, loc>>
       ELSE IF CreateError(body) # ""
       THEN /\ last' = [op |-> "create", req |-> body,
                        res |-> Fail(400, CreateError(body))]
            /\ UNCHANGED <<pc, loc>>
       ELSE /\ pc' = [pc EXCEPT ![p] = "create_count"]
            /\ loc' = [loc EXCEPT ![p] =
                         [op |-> "create", req |-> body,
                          day |-> JsString(body.day),
                          trimmedName |-> Trim(JsString(body.name)),
                          safePhone |-> SafeText(body.phone),
                          safeNotes |-> SafeText(body.notes),
                          c |-> 0]]
            /\ UNCHANGED last
    /\ UNCHANGED <<clients, assigned>>

\* A variant that compares with > instead of >=.
IsFullOffByOne(c) == c > MaxPerDay

\* if (c >= 10)
IsFull(c) == c >= MaxPerDay

CreateCount(p) ==
    /\ pc[p] = "create_count"
    /\ LET c == CountDay(clients, loc[p].day)
       IN  IF IsFull(c)
           THEN /\ last' = [op |-> "create", req |-> loc[p].req,
                            res |-> Fail(400, ErrCapacity)]
                /\ pc' = [pc EXCEPT ![p] = "idle"]
                /\ loc' = [loc EXCEPT ![p] = NoLoc]
           ELSE /\ pc' = [pc EXCEPT ![p] = "create_insert"]
                /\ loc' = [loc EXCEPT ![p].c = c]
                /\ UNCHANGED last
    /\ UNCHANGED <<clients, assigned>>

CreateInsert(p) ==
    /\ pc[p] = "create_insert"
    /\ LET row == InsertRow(clients, loc[p].day, loc[p].trimmedName,
                            loc[p].safePhone, loc[p].safeNotes, now)
       IN  /\ clients' = clients \cup {row}
           /\ assigned' = assigned \cup {row.id}
           /\ last' = [op |-> "create", req |-> loc[p].req,
                       res |-> [status |-> 200, ok |-> TRUE, row |-> row,
                                remaining |-> 9 - loc[p].c]]
    /\ pc' = [pc EXCEPT ![p] = "idle"]
    /\ loc' = [loc EXCEPT ![p] = NoLoc]

\* The store call throws: catch (err) answers 400 with err.message.
CreateCountThrows(p) ==
    /\ pc[p] = "create_count"
    /\ last' = [op |-> "create", req |-> loc[p].req,
                res |-> Fail(400, ErrStore)]
    /\ pc' = [pc EXCEPT ![p] = "idle"]
    /\ loc' = [loc EXCEPT ![p] = NoLoc]
    /\ UNCHANGED <<clients, assigned>>

\* The insert throws, before or after the store has run the statement.
CreateInsertThrows(p) ==
    /\ pc[p] = "create_insert"
    /\ \E applied \in BOOLEAN :
          clients' = IF applied
                     THEN clients \cup
                             {InsertRow(clients, loc[p].day, loc[p].trimmedName,
                                        loc[p].safePhone, loc[p].safeNotes, now)}
                     ELSE clients
    /\ last' = [op |-> "create", req |-> loc[p].req,
                res |-> Fail(400, ErrStore)]
    /\ pc' = [pc EXCEPT ![p] = "idle"]
    /\ loc' = [loc EXCEPT ![p] = NoLoc]
    /\ UNCHANGED assigned

(***************************************************************************)
(* PUT /api/clients/:id                                                    *)
(***************************************************************************)
\* A variant that tests the name without trimming it.
NameRefusedNoTrim(v) == v.t # "string" \/ v.s = <<>>

\* typeof name !== 'string' || !name.trim()
NameRefused(v) == v.t # "string" \/ Trim(v.s) = <<>>

\* v !== null && typeof v !== 'string'
TextRefused(v) == v.t # "null" /\ v.t # "string"

\* A variant that does not trim.
UpdateTextUntrimmed(v) ==
    IF v.t = "null" THEN Null
    ELSE IF v.s # <<>> THEN Str(v.s)
    ELSE Null

\* const value = v == null ? null : v.trim(); value && value.length ? value : null
UpdateText(v) ==
    IF v.t = "null" THEN Null
    ELSE IF Trim(v.s) # <<>> THEN Str(Trim(v.s))
    ELSE Null

\* fields and args, in the order the handler pushes them.
UpdateFields(body) ==
    (IF body.name.t # "undefined" THEN <<"name">> ELSE <<>>)
    \o (IF body.phone.t # "undefined" THEN <<"phone">> ELSE <<>>)
    \o (IF body.notes.t # "undefined" THEN <<"notes">> ELSE <<>>)

UpdateArgs(body) ==
    (IF body.name.t # "undefined" THEN <<Trim(body.name.s)>> ELSE <<>>)
    \o (IF body.phone.t # "undefined" THEN <<UpdateText(body.phone)>> ELSE <<>>)
    \o (IF body.notes.t # "undefined" THEN <<UpdateText(body.notes)>> ELSE <<>>)

\* A variant without the check that some field was supplied.
UpdateErrorNoEmptyCheck(idParam, body) ==
    IF ~JsNumber(idParam).isInteger THEN ErrInvalidId
    ELSE IF body.name.t # "undefined" /\ NameRefused(body.name) THEN ErrNameRequired
    ELSE IF body.phone.t # "undefined" /\ TextRefused(body.phone) THEN ErrPhoneType
    ELSE IF body.notes.t # "undefined" /\ TextRefused(body.notes) THEN ErrNotesType
    ELSE ""

UpdateError(idParam, body) ==
    IF ~JsNumber(idParam).isInteger THEN ErrInvalidId
    ELSE IF body.name.t # "undefined" /\ NameRefused(body.name) THEN ErrNameRequired
    ELSE IF body.phone.t # "undefined" /\ TextRefused(body.phone) THEN ErrPhoneType
    ELSE IF body.notes.t # "undefined" /\ TextRefused(body.notes) THEN ErrNotesType
    ELSE IF UpdateFields(body) = <<>> THEN ErrNoChanges
    ELSE ""

UpdateStart(p, idParam, body) ==
    /\ pc[p] = "idle"
    /\ IF UpdateError(idParam, body) # ""
       THEN /\ last' = [op |-> "update", idParam |-> idParam, req |-> body,
                        res |-> Fail(400, UpdateError(idParam, body))]
            /\ UNCHANGED <<pc, loc>>
       ELSE /\ pc' = [pc EXCEPT ![p] = "update_exec"]
            /\ loc' = [loc EXCEPT ![p] =
                         [op |-> "update", idParam |-> idParam, req |-> body,
                          id |-> JsNumber(idParam).n,
                          fields |-> UpdateFields(body),
                          args |-> UpdateArgs(body)]]
            /\ UNCHANGED last
    /\ UNCHANGED <<clients, assigned>>

\* if (!affected) return 404, after the statement has run.
UpdateExec(p) ==
    /\ pc[p] = "update_exec"
    /\ clients' = UpdateRows(clients, loc[p].fields, loc[p].args, loc[p].id)
    /\ last' = [op |-> "update", idParam |-> loc[p].idParam, req |-> loc[p].req,
                res |-> IF RowsAffected(clients, loc[p].id) = 0
                        THEN Fail(404, ErrNotFound)
                        ELSE [status |-> 200, ok |-> TRUE, id |-> loc[p].id]]
    /\ pc' = [pc EXCEPT ![p] = "idle"]
    /\ loc' = [loc EXCEPT ![p] = NoLoc]
    /\ UNCHANGED assigned

\* The store call throws, before or after the store has run the statement:
\* catch (err) answers 500 with err.message.
UpdateExecThrows(p) ==
    /\ pc[p] = "update_exec"
    /\ \E applied \in BOOLEAN :
          clients' = IF applied
                     THEN UpdateRows(clients, loc[p].fields, loc[p].args, loc[p].id)
                     ELSE clients
    /\ last' = [op |-> "update", idParam |-> loc[p].idParam, req |-> loc[p].req,
                res |-> Fail(500, ErrStore)]
    /\ pc' = [pc EXCEPT ![p] = "idle"]
    /\ loc' = [loc EXCEPT ![p] = NoLoc]
    /\ UNCHANGED assigned

(***************************************************************************)
(* DELETE /api/clients/:id                                                 *)
(***************************************************************************)
DeleteStart(p, idParam) ==
    /\ pc[p] = "idle"
    /\ IF ~JsNumber(idParam).isInteger
       THEN /\ last' = [op |-> "delete", idParam |-> idParam,
                        res |-> Fail(400, ErrInvalidId)]
            /\ UNCHANGED <<pc, loc>>
       ELSE /\ pc' = [pc EXCEPT ![p] = "delete_exec"]
            /\ loc' = [loc EXCEPT ![p] =
                         [op |-> "delete", idParam |-> idParam,
                          id |-> JsNumber(idParam).n]]
            /\ UNCHANGED last
    /\ UNCHANGED <<clients, assigned>>

DeleteExec(p) ==
    /\ pc[p] = "delete_exec"
    /\ clients' = DeleteRows(clients, loc[p].id)
    /\ last' = [op |-> "delete", idParam |-> loc[p].idParam,
                res |-> IF RowsAffected(clients, loc[p].id) = 0
                        THEN Fail(404, ErrNotFound)
                        ELSE [status |-> 200, ok |-> TRUE, id |-> loc[p].id,
                              deleted |-> RowsAffected(clients, loc[p].id)]]
    /\ pc' = [pc EXCEPT ![p] = "idle"]
    /\ loc' = [loc EXCEPT ![p] = NoLoc]
    /\ UNCHANGED assigned

\* The store call throws, before or after the store has run the statement:
\* catch (err) answers 500 with err.message.
DeleteExecThrows(p) ==
    /\ pc[p] = "delete_exec"
    /\ \E applied \in BOOLEAN :
          clients' = IF applied THEN DeleteRows(clients, loc[p].id) ELSE clients
    /\ last' = [op |-> "delete", idParam |-> loc[p].idParam,
                res |-> Fail(500, ErrStore)]
    /\ pc' = [pc EXCEPT ![p] = "idle"]
    /\ loc' = [loc EXCEPT ![p] = NoLoc]
    /\ UNCHANGED assigned

(***************************************************************************)
(* GET /api/clients?day=                                                   *)
(***************************************************************************)
GetStart(p, day) ==
    /\ pc[p] = "idle"
    /\ IF ~Truthy(day)
       THEN /\ last' = [op |-> "get", day |-> day, res |-> Fail(400, ErrDayParam)]
            /\ UNCHANGED <<pc, loc>>
       ELSE /\ pc' = [pc EXCEPT ![p] = "get_exec"]
            /\ loc' = [loc EXCEPT ![p] = [op |-> "get", day |-> day]]
            /\ UNCHANGED last
    /\ UNCHANGED <<clients, assigned>>

GetExec(p) ==
    /\ pc[p] = "get_exec"
    /\ last' = [op |-> "get", day |-> loc[p].day,
                res |-> [status |-> 200, ok |-> TRUE,
                         rows |-> SelectDay(clients, loc[p].day.s)]]
    /\ pc' = [pc EXCEPT ![p] = "idle"]
    /\ loc' = [loc EXCEPT ![p] = NoLoc]
    /\ UNCHANGED <<clients, assigned>>

(***************************************************************************)
(* GET /api/clients/summary?year=&month=                                   *)
(***************************************************************************)
\* !n of a parsed number: NaN and 0 are falsy.
NumFalsy(x) == x.nan \/ x.n = 0

Dashed(a, b, c) == a \o <<ChDash>> \o b \o <<ChDash>> \o c

\* const start = `${yyyy}-${mm}-01`
MonthStart(year, month) ==
    Dashed(PadStart(NumToString(year), 4), PadStart(NumToString(month), 2),
           PadStart(DigitsOf(1), 2))

\* const nextMonth = month === 12 ? `${year + 1}-01-01`
\*                                : `${yyyy}-${String(month + 1).padStart(2, '0')}-01`
NextMonth(year, month) ==
    IF month = 12
    THEN Dashed(NumToString(year + 1), PadStart(DigitsOf(1), 2),
                PadStart(DigitsOf(1), 2))
    ELSE Dashed(PadStart(NumToString(year), 4),
                PadStart(NumToString(month + 1), 2), PadStart(DigitsOf(1), 2))

SummaryStart(p, year, month) ==
    /\ pc[p] = "idle"
    /\ IF NumFalsy(ParseInt(year)) \/ NumFalsy(ParseInt(month))
       THEN /\ last' = [op |-> "summary", year |-> year, month |-> month,
                        res |-> Fail(400, ErrYearMonth)]
            /\ UNCHANGED <<pc, loc>>
       ELSE /\ pc' = [pc EXCEPT ![p] = "summary_exec"]
            /\ loc' = [loc EXCEPT ![p] =
                         [op |-> "summary", year |-> year, month |-> month,
                          start |-> MonthStart(ParseInt(year).n, ParseInt(month).n),
                          nextMonth |-> NextMonth(ParseInt(year).n,
                                                  ParseInt(month).n)]]
            /\ UNCHANGED last
    /\ UNCHANGED <<clients, assigned>>

SummaryExec(p) ==
    /\ pc[p] = "summary_exec"
    /\ last' = [op |-> "summary", year |-> loc[p].year, month |-> loc[p].month,
                res |-> [status |-> 200, ok |-> TRUE,
                         rows |-> SummaryRows(clients, loc[p].start,
                                              loc[p].nextMonth)]]
    /\ pc' = [pc EXCEPT ![p] = "idle"]
    /\ loc' = [loc EXCEPT ![p] = NoLoc]
    /\ UNCHANGED <<clients, assigned>>

(***************************************************************************)
(* GET /api/clients/search?name=&year=&month=                              *)
(***************************************************************************)
\* req.query.x ? parseInt(req.query.x, 10) : null.  The result is only
\* tested for truth before it is used, and null is falsy as NaN is.
QueryInt(v) == IF Truthy(v) THEN ParseInt(v) ELSE [nan |-> TRUE, n |-> 0]

\* `%${String(name).trim()}%`
SearchTerm(name) == <<37>> \o Trim(JsString(name)) \o <<37>>

\* The range of the search: none, a month, or a year.
SearchRange(year, month) ==
    IF ~NumFalsy(year) /\ ~NumFalsy(month)
    THEN [ranged |-> TRUE, start |-> MonthStart(year.n, month.n),
          end |-> NextMonth(year.n, month.n)]
    ELSE IF ~NumFalsy(year)
    THEN [ranged |-> TRUE,
          start |-> Dashed(PadStart(NumToString(year.n), 4),
                           PadStart(DigitsOf(1), 2), PadStart(DigitsOf(1), 2)),
          end |-> Dashed(PadStart(NumToString(year.n + 1), 4),
                         PadStart(DigitsOf(1), 2), PadStart(DigitsOf(1), 2))]
    ELSE [ranged |-> FALSE, start |-> <<>>, end |-> <<>>]

SearchStart(p, name, year, month) ==
    /\ pc[p] = "idle"
    /\ IF ~Truthy(name) \/ Trim(JsString(name)) = <<>>
       THEN /\ last' = [op |-> "search", name |-> name, year |-> year,
                        month |-> month, res |-> Fail(400, ErrNameParam)]
            /\ UNCHANGED <<pc, loc>>
       ELSE /\ pc' = [pc EXCEPT ![p] = "search_exec"]
            /\ loc' = [loc EXCEPT ![p] =
                         [op |-> "search", name |-> name, year |-> year,
                          month |-> month, term |-> SearchTerm(name),
                          range |-> SearchRange(QueryInt(year), QueryInt(month))]]
            /\ UNCHANGED last
    /\ UNCHANGED <<clients, assigned>>

SearchExec(p) ==
    /\ pc[p] = "search_exec"
    /\ last' = [op |-> "search", name |-> loc[p].name, year |-> loc[p].year,
                month |-> loc[p].month,
                res |-> [status |-> 200, ok |-> TRUE,
                         rows |-> SearchRows(clients, loc[p].term,
                                             loc[p].range.ranged,
                                             loc[p].range.start,
                                             loc[p].range.end)]]
    /\ pc' = [pc EXCEPT ![p] = "idle"]
    /\ loc' = [loc EXCEPT ![p] = NoLoc]
    /\ UNCHANGED <<clients, assigned>>

(***************************************************************************)
(* Requests.                                                               *)
(***************************************************************************)
Ymd(y, m, d) ==
    PadStart(DigitsOf(y), 4) \o <<ChDash>> \o PadStart(DigitsOf(m), 2)
        \o <<ChDash>> \o PadStart(DigitsOf(d), 2)

DayMon == Ymd(2024, 6, 3)
DayTue == Ymd(2024, 6, 4)
DaySat == Ymd(2024, 6, 8)
DaySun == Ymd(2024, 6, 9)
DayFeb30 == Ymd(2024, 2, 30)
DayMonth13 == Ymd(2024, 13, 1)
DayZero == Ymd(2024, 6, 0)
DayDec == Ymd(2024, 12, 31)
DayJan == Ymd(2025, 1, 1)
DayLast == Ymd(9999, 12, 31)
DayShort == DigitsOf(2024) \o <<ChDash>> \o DigitsOf(6) \o <<ChDash>> \o DigitsOf(3)

NameA == <<ChA>>
NameB == <<ChA + 1>>
Padded(s) == <<ChSpace>> \o s \o <<ChSpace>>
Blank == <<ChSpace, ChSpace>>

Body(day, name, phone, notes) ==
    [day |-> day, name |-> name, phone |-> phone, notes |-> notes]

Fields(name, phone, notes) == [name |-> name, phone |-> phone, notes |-> notes]

\* The requests of the concurrent specifications: well-formed ones.
CoreCreates ==
    {Body(Str(d), Str(NameA), Undefined, Undefined) : d \in {DayMon, DayTue}}

CoreIdParams == {DigitsOf(i) : i \in 1..MaxId} \cup {NameA}

CoreDays == {Str(DayMon), Str(DayTue), Undefined}

\* The requests of the capacity specifications.
CapCreates == {Body(Str(DayMon), Str(NameA), Undefined, Undefined)}

CapIdParams == {DigitsOf(1), DigitsOf(MaxPerDay)}

SeqCreates ==
    {Body(Str(d), Str(NameA), Undefined, Undefined) : d \in {DayMon, DayTue}}

\* The requests of the input specification: every kind of day, name, phone
\* and notes, one field varied at a time.
DayInputs ==
    {Str(DayMon), Str(DaySat), Str(DaySun), Str(DayFeb30), Str(DayMonth13),
     Str(DayZero), Str(DayShort), Num(20240603), Str(<<>>), Undefined}

NameInputs ==
    {Str(NameA), Str(Padded(NameA)), Str(Blank), Str(<<>>), Num(5), Num(0),
     Null, Undefined}

TextInputs ==
    {Undefined, Null, Str(<<>>), Str(Blank), Str(Padded(DigitsOf(7))), Num(5)}

InputCreates ==
    {Body(d, Str(NameA), Undefined, Undefined) : d \in DayInputs}
    \cup {Body(Str(d), n, Undefined, Undefined) :
            d \in {DayMon, DaySat}, n \in NameInputs}
    \cup {Body(Str(d), Str(NameA), t, Undefined) :
            d \in {DayMon, DaySat}, t \in TextInputs}
    \cup {Body(Str(d), Str(NameA), Undefined, t) :
            d \in {DayMon, DaySat}, t \in TextInputs}

\* The updates of the input specification: every kind of name.
InputUpdates ==
    {Fields(n, Undefined, Undefined) :
        n \in {Str(Padded(NameB)), Str(Blank), Str(<<>>), Num(5), Null}}

\* The requests of the update specification: every kind of name, phone and
\* notes, one field varied at a time, none, and all three, on bookings
\* created with and without a phone.
UpdateCreates ==
    {Body(Str(DayMon), Str(NameA), t, Undefined) :
        t \in {Undefined, Str(Padded(DigitsOf(7)))}}

UpdateUpdates ==
    {Fields(n, Undefined, Undefined) :
        n \in {Undefined, Str(Padded(NameB)), Str(Blank), Str(<<>>), Num(5), Null}}
    \cup {Fields(Undefined, t, Undefined) : t \in TextInputs}
    \cup {Fields(Undefined, Undefined, t) : t \in TextInputs}
    \cup {Fields(Str(NameB), Null, Str(Padded(DigitsOf(7))))}

InputIdParams == {DigitsOf(i) : i \in 1..(MaxIdInput + 1)} \cup {NameA}

\* The requests of the failure specification: the one well-formed create of
\* the capacity specifications and every create that is refused; every kind
\* of update, of the first booking; deletes of the first and the tenth.
FailCreates == CapCreates \cup {b \in InputCreates : CreateError(b) # ""}

FailUpdateIdParams == {DigitsOf(1), NameA}

FailDeleteIdParams == CapIdParams \cup {NameA}

\* The requests of the frame specification: bookings with and without a
\* phone; updates of the name alone, of the phone alone (cleared), of the
\* notes alone, of all three, and of none.
FrameUpdates ==
    {Fields(Str(Padded(NameB)), Undefined, Undefined),
     Fields(Undefined, Null, Undefined),
     Fields(Undefined, Undefined, Str(Padded(DigitsOf(7)))),
     Fields(Str(NameB), Str(Blank), Str(Padded(DigitsOf(7)))),
     Fields(Undefined, Undefined, Undefined)}

FrameIdParams == {DigitsOf(i) : i \in 1..MaxIdFrame}

\* The requests of the text specification: every kind of phone and notes,
\* given to create and to update.
TextCreates ==
    {Body(Str(DayMon), Str(NameA), t, Undefined) : t \in TextInputs}
    \cup {Body(Str(DayMon), Str(NameA), Undefined, t) : t \in TextInputs}

TextUpdates ==
    {Fields(Undefined, t, Undefined) : t \in TextInputs \ {Undefined}}
    \cup {Fields(Undefined, Undefined, t) : t \in TextInputs \ {Undefined}}

\* The deletes of the release specification: of the first booking.
FreeIdParams == {DigitsOf(1)}

\* The requests of the specification of all six operations: well-formed
\* ones, on two days; deletes of the first booking and updates of the second.
AllUpdates == {Fields(Str(NameB), Undefined, Undefined)}

AllUpdateIdParams == {DigitsOf(2)}

AllDeleteIdParams == {DigitsOf(1)}

AllDays == {Str(DayMon)}

AllNames == {Str(NameA)}

AllWindows == {<<Str(DigitsOf(2024)), Str(DigitsOf(6))>>}

\* The requests of the read specification: bookings of two days, one of them
\* with a name and a phone to normalize.
ReadCreates ==
    {Body(Str(DayMon), Str(NameA), Undefined, Undefined),
     Body(Str(DayMon), Str(Padded(NameB)), Str(Padded(DigitsOf(7))), Null),
     Body(Str(DayTue), Str(NameA), Undefined, Undefined)}

ReadIdParams == {DigitsOf(i) : i \in 1..MaxIdRead}

ReadDays == {Str(DayMon), Str(DayTue), Undefined}

\* The requests of the report specification: bookings in June and December
\* 2024, January 2025 and December 9999, one of them with another name and
\* a phone; the summaries of those months; the searches for a name in
\* either case, in a month, in a year and in no range.
NameUp == <<ChA + 1, 65>>

ReportCreates ==
    {Body(Str(d), Str(NameA), Undefined, Undefined) :
        d \in {DayMon, DayDec, DayJan, DayLast}}
    \cup {Body(Str(DayMon), Str(NameUp), Str(DigitsOf(7)), Undefined),
          Body(Str(DayTue), Str(NameB), Undefined, Undefined)}

ReportNames == {Str(NameA), Str(Padded(<<65>>)), Str(Blank)}

\* year and month of a search: neither, a year, a month of a year, and a
\* month without a year.
ReportWindows ==
    {<<Undefined, Undefined>>, <<Undefined, Str(DigitsOf(6))>>,
     <<Str(DigitsOf(2024)), Undefined>>, <<Str(DigitsOf(2024)), Str(DigitsOf(12))>>,
     <<Str(DigitsOf(9999)), Undefined>>, <<Str(DigitsOf(9999)), Str(DigitsOf(12))>>}

ReportIdParams == {DigitsOf(i) : i \in 1..MaxIdReport}

ReportYears == {Str(DigitsOf(2024)), Str(DigitsOf(9999)), Undefined}

ReportMonths == {Str(DigitsOf(6)), Str(DigitsOf(12)), Undefined}

\* Requests whose handlers end in every way: a response of the synchronous
\* part, of the try block or of catch, and a throw outside the try block.
LiveCreates ==
    {Body(Str(DayMon), Str(NameA), Undefined, Undefined),
     Body(Str(DayMon), Unprintable, Undefined, Undefined),
     Body(Unprintable, Str(NameA), Undefined, Undefined),
     Body(Str(DayMon), PlainObject, Unprintable, Undefined),
     Body(Undefined, Str(NameA), Undefined, Undefined)}

LiveUpdates ==
    {Fields(Str(NameB), Undefined, Undefined),
     Fields(Unprintable, Undefined, Undefined),
     Fields(Undefined, Undefined, Undefined)}

LiveIdParams == {DigitsOf(1), NameA}

(***************************************************************************)
(* The state machine.                                                      *)
(***************************************************************************)
Init ==
    /\ clients = {}
    /\ pc = [p \in Procs |-> "idle"]
    /\ loc = [p \in Procs |-> NoLoc]
    /\ last = NoLast
    /\ assigned = {}
    /\ now = 0
    /\ prev = NoPrev
    /\ inserted = <<>>
    /\ track = [p \in Procs |-> NoTrack]

\* Bound on the ids the store hands out: no create is started that could
\* take an id above n.
IdBudget(n) ==
    (IF clients = {} THEN 0 ELSE Max(Ids(clients)))
        + Cardinality({q \in Procs : pc[q] \in {"create_count", "create_insert"}})
    < n

\* A create that goes on to the store is started only within the bound.
Room(body, n) == CreateError(body) # "" \/ IdBudget(n)

\* A step of a handler does not advance the clock; the histories are kept by
\* the specifications that say so.
Still == UNCHANGED <<now, prev, inserted, track>>

\* Concurrent creates, deletes and gets of well-formed requests.
Next ==
    \E p \in Procs :
        \/ \E b \in CoreCreates : Room(b, MaxId) /\ CreateStart(p, b) /\ Still
        \/ CreateCount(p) /\ Still
        \/ CreateInsert(p) /\ Still
        \/ \E i \in CoreIdParams : DeleteStart(p, i) /\ Still
        \/ DeleteExec(p) /\ Still
        \/ \E d \in CoreDays : GetStart(p, d) /\ Still
        \/ GetExec(p) /\ Still

Spec == Init /\ [][Next]_vars

\* Concurrent creates and deletes up to the capacity of a day.
NextCap ==
    \E p \in Procs :
        \/ \E b \in CapCreates : Room(b, MaxIdCap) /\ CreateStart(p, b) /\ Still
        \/ CreateCount(p) /\ Still
        \/ CreateInsert(p) /\ Still
        \/ \E i \in CapIdParams : DeleteStart(p, i) /\ Still
        \/ DeleteExec(p) /\ Still

SpecCap == Init /\ [][NextCap]_vars

\* One request at a time, each run to its answer before the next starts: a
\* single handler is ever in progress, here that of the first process.
Sequential == CHOOSE p \in Procs : \A q \in Procs : p <= q

\* Creates only, nothing deleted.
NextSeq ==
    \/ \E b \in SeqCreates : Room(b, MaxIdCap) /\ CreateStart(Sequential, b) /\ Still
    \/ CreateCount(Sequential) /\ Still
    \/ CreateInsert(Sequential) /\ Still

SpecSeq == Init /\ [][NextSeq]_vars

\* Every kind of create.
NextInput ==
    \/ \E b \in InputCreates : Room(b, MaxIdInput) /\ CreateStart(Sequential, b) /\ Still
    \/ CreateCount(Sequential) /\ Still
    \/ CreateInsert(Sequential) /\ Still
    \/ \E i \in InputIdParams, b \in InputUpdates : UpdateStart(Sequential, i, b) /\ Still
    \/ UpdateExec(Sequential) /\ Still
    \/ \E i \in InputIdParams : DeleteStart(Sequential, i) /\ Still
    \/ DeleteExec(Sequential) /\ Still

SpecInput == Init /\ [][NextInput]_vars

\* One request at a time, with every kind of update.
NextUpdate ==
    \/ \E b \in UpdateCreates : Room(b, MaxIdInput) /\ CreateStart(Sequential, b) /\ Still
    \/ CreateCount(Sequential) /\ Still
    \/ CreateInsert(Sequential) /\ Still
    \/ \E i \in InputIdParams, b \in UpdateUpdates : UpdateStart(Sequential, i, b) /\ Still
    \/ UpdateExec(Sequential) /\ Still
    \/ \E i \in InputIdParams : DeleteStart(Sequential, i) /\ Still
    \/ DeleteExec(Sequential) /\ Still

SpecUpdate == Init /\ [][NextUpdate]_vars

\* One request at a time, with every kind of refusal, up to the capacity of
\* a day.
NextFail ==
    \/ \E b \in FailCreates :
          Room(b, MaxIdCap) /\ CreateStart(Sequential, b) /\ Still
    \/ CreateCount(Sequential) /\ Still
    \/ CreateInsert(Sequential) /\ Still
    \/ \E i \in FailUpdateIdParams, b \in UpdateUpdates :
          UpdateStart(Sequential, i, b) /\ Still
    \/ UpdateExec(Sequential) /\ Still
    \/ \E i \in FailDeleteIdParams : DeleteStart(Sequential, i) /\ Still
    \/ DeleteExec(Sequential) /\ Still

SpecFail == Init /\ [][NextFail]_vars

\* The store's clock advances.
Tick ==
    /\ now < MaxNow
    /\ now' = now + 1
    /\ UNCHANGED <<clients, pc, loc, last, assigned, prev, inserted, track>>

\* One request at a time: creates and updates, while the clock advances.
NextFrame ==
    \/ \E b \in UpdateCreates :
          Room(b, MaxIdFrame) /\ CreateStart(Sequential, b) /\ Still
    \/ CreateCount(Sequential) /\ Still
    \/ CreateInsert(Sequential) /\ Still
    \/ \E i \in FrameIdParams, b \in FrameUpdates :
          UpdateStart(Sequential, i, b) /\ Still
    \/ UpdateExec(Sequential) /\ Still
    \/ Tick

SpecFrame == Init /\ [][NextFrame]_vars

\* One request at a time, with every kind of phone and notes.
NextText ==
    \/ \E b \in TextCreates :
          Room(b, MaxIdInput) /\ CreateStart(Sequential, b) /\ Still
    \/ CreateCount(Sequential) /\ Still
    \/ CreateInsert(Sequential) /\ Still
    \/ \E i \in InputIdParams, b \in TextUpdates :
          UpdateStart(Sequential, i, b) /\ Still
    \/ UpdateExec(Sequential) /\ Still
    \/ \E i \in InputIdParams : DeleteStart(Sequential, i) /\ Still
    \/ DeleteExec(Sequential) /\ Still

SpecText == Init /\ [][NextText]_vars

\* The history of a step of process p: when the step answers a request, the
\* answer before it with the store each of the two answers found; and the
\* stored ids in order of insertion.
Remember(p) ==
    /\ prev' = IF pc'[p] = "idle"
               THEN [answer |-> last, before |-> prev.lastBefore,
                     lastBefore |-> clients]
               ELSE prev
    /\ inserted' =
          SelectSeq(inserted, LAMBDA i : i \in Ids(clients'))
              \o (IF Ids(clients') \ Ids(clients) = {} THEN <<>>
                  ELSE <<CHOOSE i \in Ids(clients') : i \notin Ids(clients)>>)
    /\ now' = now
    /\ track' = track

\* One request at a time: creates, deletes and gets, with the history kept.
NextRead ==
    \/ \E b \in ReadCreates :
          Room(b, MaxIdRead) /\ CreateStart(Sequential, b) /\ Remember(Sequential)
    \/ CreateCount(Sequential) /\ Remember(Sequential)
    \/ CreateInsert(Sequential) /\ Remember(Sequential)
    \/ \E i \in ReadIdParams : DeleteStart(Sequential, i) /\ Remember(Sequential)
    \/ DeleteExec(Sequential) /\ Remember(Sequential)
    \/ \E d \in ReadDays : GetStart(Sequential, d) /\ Remember(Sequential)
    \/ GetExec(Sequential) /\ Remember(Sequential)

SpecRead == Init /\ [][NextRead]_vars

\* One request at a time: creates up to the capacity of a day and deletes,
\* with the history kept.
NextFree ==
    \/ \E b \in SeqCreates :
          Room(b, MaxIdCap) /\ CreateStart(Sequential, b) /\ Remember(Sequential)
    \/ CreateCount(Sequential) /\ Remember(Sequential)
    \/ CreateInsert(Sequential) /\ Remember(Sequential)
    \/ \E i \in FreeIdParams : DeleteStart(Sequential, i) /\ Remember(Sequential)
    \/ DeleteExec(Sequential) /\ Remember(Sequential)

SpecFree == Init /\ [][NextFree]_vars

\* Concurrent requests of all six operations.
NextAll ==
    \E p \in Procs :
        \/ \E b \in CoreCreates : Room(b, MaxId) /\ CreateStart(p, b) /\ Still
        \/ CreateCount(p) /\ Still
        \/ CreateInsert(p) /\ Still
        \/ \E i \in AllUpdateIdParams, b \in AllUpdates : UpdateStart(p, i, b) /\ Still
        \/ UpdateExec(p) /\ Still
        \/ \E i \in AllDeleteIdParams : DeleteStart(p, i) /\ Still
        \/ DeleteExec(p) /\ Still
        \/ \E d \in AllDays : GetStart(p, d) /\ Still
        \/ GetExec(p) /\ Still
        \/ \E n \in AllNames, w \in AllWindows :
              SearchStart(p, n, w[1], w[2]) /\ Still
        \/ SearchExec(p) /\ Still
        \/ \E w \in AllWindows : SummaryStart(p, w[1], w[2]) /\ Still
        \/ SummaryExec(p) /\ Still

SpecAll == Init /\ [][NextAll]_vars

\* One request at a time: creates, deletes and the reports.
NextReport ==
    \/ \E b \in ReportCreates :
          Room(b, MaxIdReport) /\ CreateStart(Sequential, b) /\ Still
    \/ CreateCount(Sequential) /\ Still
    \/ CreateInsert(Sequential) /\ Still
    \/ \E i \in ReportIdParams : DeleteStart(Sequential, i) /\ Still
    \/ DeleteExec(Sequential) /\ Still
    \/ \E y \in ReportYears, m \in ReportMonths :
          SummaryStart(Sequential, y, m) /\ Still
    \/ SummaryExec(Sequential) /\ Still
    \/ \E n \in ReportNames, w \in ReportWindows :
          SearchStart(Sequential, n, w[1], w[2]) /\ Still
    \/ SearchExec(Sequential) /\ Still

SpecReport == Init /\ [][NextReport]_vars

\* The history of a step of process p: a request reaches its handler in the
\* step that finds p idle; the handler has ended when the step leaves p
\* idle, and it has sent the response the step records, if any.
Count(p) ==
    /\ track' = [track EXCEPT ![p] =
          [state |-> IF pc'[p] = "idle" THEN "ended" ELSE "running",
           sent |-> (IF pc[p] = "idle" THEN 0 ELSE track[p].sent)
                       + (IF pc'[p] = "idle" /\ last'.res # NoResponse
                          THEN 1 ELSE 0)]]
    /\ UNCHANGED <<now, prev, inserted>>

\* A store call of process p returns or throws.
StoreStep(p) ==
    \/ CreateCount(p) /\ Count(p)
    \/ CreateCountThrows(p) /\ Count(p)
    \/ CreateInsert(p) /\ Count(p)
    \/ CreateInsertThrows(p) /\ Count(p)
    \/ UpdateExec(p) /\ Count(p)
    \/ UpdateExecThrows(p) /\ Count(p)
    \/ DeleteExec(p) /\ Count(p)
    \/ DeleteExecThrows(p) /\ Count(p)

\* Concurrent creates, updates and deletes whose store calls return or throw.
NextLive ==
    \E p \in Procs :
        \/ \E b \in LiveCreates :
              /\ CreateThrows(b) \/ Room(b, MaxIdLive)
              /\ CreateStart(p, b) /\ Count(p)
        \/ \E i \in LiveIdParams, b \in LiveUpdates :
              UpdateStart(p, i, b) /\ Count(p)
        \/ \E i \in LiveIdParams : DeleteStart(p, i) /\ Count(p)
        \/ StoreStep(p)

\* Every store call that is awaited returns or throws.
SpecLive == Init /\ [][NextLive]_vars /\ \A p \in Procs : WF_vars(StoreStep(p))

(***************************************************************************)
(* The calendar, for the claims: the weekday of a real date by Zeller's    *)
(* congruence (0 = Saturday, 1 = Sunday, 2 = Monday ... 6 = Friday).       *)
(***************************************************************************)
Zeller(s) ==
    LET m == IF MonthOf(s) <= 2 THEN MonthOf(s) + 12 ELSE MonthOf(s)
        y == IF MonthOf(s) <= 2 THEN YearOf(s) - 1 ELSE YearOf(s)
        k == y % 100
        j == y \div 100
    IN  (DateOf(s) + (13 * (m + 1)) \div 5 + k + k \div 4 + j \div 4 + 5 * j) % 7

\* A JS value that is the text of a real date falling on Saturday or Sunday.
IsWeekendDate(v) == v.t = "string" /\ IsRealDate(v.s) /\ Zeller(v.s) \in {0, 1}

\* A JS value that has the YYYY-MM-DD shape and is no real date.
IsUnrealDate(v) == v.t = "string" /\ DayPattern(v.s) /\ ~IsRealDate(v.s)

HasNonWs(s) == \E i \in 1..Len(s) : ~IsWs(s[i])

\* The step in which process p's pending store call `from` is answered.
Answered(p, from) == pc[p] = from /\ pc'[p] = "idle"

(***************************************************************************)
(* C1.  In every reachable state no day has more than 10 stored bookings,  *)
(* also when creates run concurrently and interleave at their store calls. *)
(* The code counts and inserts in two store calls, so this fails.          *)
(***************************************************************************)
C1_AtMostTenPerDay == \A r \in clients : CountDay(clients, r.day) <= 10

(***************************************************************************)
(* C2.  Creates for a valid weekday run one at a time, nothing deleted     *)
(* (SpecSeq): the k-th create of a day succeeds for k = 1..10 and reports  *)
(* remaining = 10 - k, and every further create of that day fails with     *)
(* CapacityExceeded and inserts nothing.  With nothing deleted, the k-th   *)
(* successful create of a day is the one that leaves k bookings on it.     *)
(***************************************************************************)
C2_SequentialCreates ==
    /\ \A r \in clients : CountDay(clients, r.day) <= 10
    /\ \A p \in Procs :
          /\ pc[p] = "create_insert" =>
                /\ CountDay(clients, loc[p].day) < 10
                /\ loc[p].c = CountDay(clients, loc[p].day)
    /\ last.op = "create" =>
          IF last.res.ok
          THEN LET k == CountDay(clients, last.res.row.day)
               IN  /\ k \in 1..10
                   /\ last.res.row \in clients
                   /\ last.res.remaining = 10 - k
          ELSE /\ last.res = Fail(400, ErrCapacity)
               /\ CountDay(clients, last.req.day.s) = 10

\* The eleventh create of a day is refused, with bookings on another day.
C2_Witness ==
    /\ last.op = "create"
    /\ last.res = Fail(400, ErrCapacity)
    /\ CountDay(clients, DayMon) = 10
    /\ \E r \in clients : r.day = DayTue

(***************************************************************************)
(* C3.  Whenever a create succeeds, the remaining value it reports is 10   *)
(* minus the number of bookings stored for its day right after its insert, *)
(* for every interleaving of creates and deletes.  The code reports 9 - c  *)
(* for the count c it read before the insert, so this fails.               *)
(***************************************************************************)
C3_RemainingAfterInsert ==
    [][\A p \in Procs :
          Answered(p, "create_insert") =>
              last'.res.remaining = 10 - CountDay(clients', loc[p].day)]_vars

C5_StoredDaysAreWeekdays ==
    \A r \in clients :
        /\ DayPattern(r.day)
        /\ ~DateParse(r.day).nan
        /\ GetUTCDay(DateParse(r.day).t) \in 1..5
        /\ IsRealDate(r.day) => Zeller(r.day) \in 2..6

\* A booking of a Monday is stored after a create and a successful update.
C5_Witness ==
    /\ \E r \in clients : r.day = DayMon
    /\ last.op = "update"
    /\ last.res.ok

(***************************************************************************)
(* C6.  create rejects with InvalidDate, and stores nothing for, every day *)
(* of the YYYY-MM-DD shape that is no real calendar date; hence every      *)
(* stored booking's day is a real calendar date.  The engine's parser      *)
(* takes any day 1..31 in any month, so 2024-02-30 is stored.              *)
(***************************************************************************)
C6_UnrealDatesRejected ==
    /\ (last.op = "create" /\ IsUnrealDate(last.req.day)) =>
          last.res = Fail(400, ErrInvalidDate)
    /\ \A r \in clients : IsRealDate(r.day)

(***************************************************************************)
(* C7.  In every reachable state every stored booking's name is a          *)
(* non-empty string with at least one character that is not whitespace.    *)
(***************************************************************************)
C7_StoredNamesNotBlank ==
    \A r \in clients : r.name # <<>> /\ HasNonWs(r.name)

\* A padded name given to a successful update is stored trimmed.
C7_Witness ==
    /\ last.op = "update"
    /\ last.res.ok
    /\ last.req.name = Str(Padded(NameB))
    /\ \E r \in clients : r.name = NameB

(***************************************************************************)
(* C8.  Booking ids are unique and never reused: a create never assigns an *)
(* id that an earlier create assigned, even after that booking was         *)
(* deleted.  The table's id is an integer primary key without              *)
(* AUTOINCREMENT, so the id of a deleted last row is assigned again.       *)
(***************************************************************************)
C8_IdsNeverReused ==
    [][\A p \in Procs :
          Answered(p, "create_insert") =>
              /\ last'.res.row.id \notin assigned
              /\ \A r1, r2 \in clients' : r1.id = r2.id => r1 = r2]_vars

(***************************************************************************)
(* C9.  As claimed: an update that supplies none of name, phone, notes     *)
(* always fails with NoChanges, and an update for an id that no stored     *)
(* booking has always fails with NotFound.  (An id is an integer; the      *)
(* store changes only in steps that also answer a request, so the stored   *)
(* ids are those at the time of the answer.)                               *)
(***************************************************************************)
UpdateHasId(l) == l.op = "update" /\ JsNumber(l.idParam).isInteger

NoFields(l) ==
    l.req.name.t = "undefined" /\ l.req.phone.t = "undefined"
        /\ l.req.notes.t = "undefined"

C9_NoChangesAndNotFound ==
    /\ (UpdateHasId(last) /\ NoFields(last)) => last.res = Fail(400, ErrNoChanges)
    /\ (UpdateHasId(last) /\ JsNumber(last.idParam).n \notin Ids(clients)) =>
          last.res = Fail(404, ErrNotFound)

\* At least one field is supplied and every supplied field is valid.
FieldsValid(l) ==
    /\ ~NoFields(l)
    /\ l.req.name.t = "undefined" \/ (l.req.name.t = "string" /\ HasNonWs(l.req.name.s))
    /\ l.req.phone.t \in {"undefined", "null", "string"}
    /\ l.req.notes.t \in {"undefined", "null", "string"}

\* C9 as amended.  An update with an integer id that supplies none of name,
\* phone, notes fails with NoChanges; an update with an integer id that
\* supplies at least one field, each supplied field being valid (name a
\* string that is not blank, phone and notes null or a string), for an id
\* that no stored booking has fails with NotFound; in both cases the store is
\* left unchanged.  (Such an update for an id that a booking has succeeds.)

C9_UpdateRefusals ==
    [][((last' # last \/ \E p \in Procs : Answered(p, "update_exec"))
          /\ UpdateHasId(last')) =>
          /\ NoFields(last') =>
                (last'.res = Fail(400, ErrNoChanges) /\ clients' = clients)
          /\ (FieldsValid(last') /\ JsNumber(last'.idParam).n \notin Ids(clients)) =>
                (last'.res = Fail(404, ErrNotFound) /\ clients' = clients)
          /\ (FieldsValid(last') /\ JsNumber(last'.idParam).n \in Ids(clients)) =>
                last'.res.ok]_vars

\* An update that clears the phone of an id no booking has, on a store that
\* holds a booking, is answered NotFound.
C9_Witness ==
    /\ last.op = "update"
    /\ last.res = Fail(404, ErrNotFound)
    /\ last.req.phone = Null
    /\ clients # {}

(***************************************************************************)
(* C10.  A delete for an id that no stored booking has fails with NotFound *)
(* and leaves the store unchanged; after a successful delete of id X a get *)
(* for the booking's day does not include X, and X stays out of the store  *)
(* until a create inserts a row.                                           *)
(***************************************************************************)
SeqIds(rows) == {rows[i].id : i \in 1..Len(rows)}

C10_Delete ==
    [][/\ \A p \in Procs :
             Answered(p, "delete_exec") =>
                 IF loc[p].id \notin Ids(clients)
                 THEN last'.res = Fail(404, ErrNotFound) /\ clients' = clients
                 ELSE /\ last'.res.ok
                      /\ last'.res.id = loc[p].id
                      /\ \A r \in clients :
                            r.id = loc[p].id =>
                                loc[p].id \notin SeqIds(SelectDay(clients', r.day))
       /\ \A x \in Ids(clients') \ Ids(clients) :
             \E p \in Procs : Answered(p, "create_insert")]_vars

\* A delete has succeeded and its id is gone while a later booking remains.
C10_Witness ==
    /\ last.op = "delete"
    /\ last.res.ok
    /\ last.res.id \notin Ids(clients)
    /\ \E r \in clients : r.id > last.res.id

(***************************************************************************)
(* C11.  With requests run one at a time (SpecRead): when a get for day d  *)
(* is answered right after a successful create for d that returned booking *)
(* b, the rows of the get hold b, as returned (same id, day, normalized    *)
(* name, phone and notes), at exactly one position, and no other row has   *)
(* b's id.                                                                 *)
(***************************************************************************)
Positions(rows, r) == {i \in 1..Len(rows) : rows[i] = r}

C11_CreateThenGet ==
    (/\ last.op = "get" /\ last.res.ok
     /\ prev.answer.op = "create" /\ prev.answer.res.ok
     /\ last.day = Str(prev.answer.res.row.day)) =>
        /\ Cardinality(Positions(last.res.rows, prev.answer.res.row)) = 1
        /\ Cardinality({i \in 1..Len(last.res.rows) :
                           last.res.rows[i].id = prev.answer.res.row.id}) = 1
        /\ prev.answer.res.row.day = JsString(prev.answer.req.day)
        /\ prev.answer.res.row.name = Trim(JsString(prev.answer.req.name))
        /\ prev.answer.res.row.phone = SafeText(prev.answer.req.phone)
        /\ prev.answer.res.row.notes = SafeText(prev.answer.req.notes)

\* A get right after the create of a booking with a padded name and phone
\* returns it after an earlier booking of the same day.
C11_Witness ==
    /\ last.op = "get" /\ last.res.ok
    /\ prev.answer.op = "create" /\ prev.answer.res.ok
    /\ last.day = Str(prev.answer.res.row.day)
    /\ prev.answer.req.name = Str(Padded(NameB))
    /\ Len(last.res.rows) = 2
    /\ last.res.rows[2] = prev.answer.res.row

(***************************************************************************)
(* C12.  For every summary of a year in 0001..9999 and a month in 1..12,   *)
(* the counts of the rows it returns sum to the number of stored bookings  *)
(* whose day is in that month of that year, that is, from the first day of *)
(* the month up to the first day of the next (December up to January of    *)
(* the next year).  The code writes the January after a December with the  *)
(* year unpadded, and the store compares days as text, so the summary of   *)
(* December 9999 ends at '10000-01-01', which sorts before every day of    *)
(* that month, and returns nothing.                                        *)
(***************************************************************************)
RECURSIVE SumCounts(_)
SumCounts(rows) ==
    IF rows = <<>> THEN 0 ELSE Head(rows).count + SumCounts(Tail(rows))

\* The number a request parameter writes, when it is one of lo..hi in digits.
IsParam(v, lo, hi) ==
    v.t = "string" /\ AllDigits(v.s) /\ DigitsValue(v.s) \in lo..hi

\* The stored bookings of month m of year y.
OfMonth(tbl, y, m) == {r \in tbl : YearOf(r.day) = y /\ MonthOf(r.day) = m}

C12_SummaryCounts ==
    (/\ last.op = "summary" /\ last.res.ok
     /\ IsParam(last.year, 1, 9999) /\ IsParam(last.month, 1, 12)) =>
        SumCounts(last.res.rows) =
            Cardinality(OfMonth(clients, DigitsValue(last.year.s),
                                DigitsValue(last.month.s)))

(***************************************************************************)
(* C13.  A search returns exactly the stored bookings whose name contains  *)
(* the trimmed pattern, letters compared in either case, and whose day is  *)
(* in the window asked for: the month of the year when year (0001..9999)   *)
(* and month (1..12) are both given, the year when only the year is given, *)
(* every day when neither is given; each once, by day ascending, then id   *)
(* ascending.  The end of the window is compared as text: for the year     *)
(* 9999 it is '10000-01-01', which sorts before every day of the year, so  *)
(* such a search returns nothing.                                          *)
(***************************************************************************)
Contains(s, sub) ==
    \E i \in 0..(Len(s) - Len(sub)) : SubSeq(s, i + 1, i + Len(sub)) = sub

\* The days of the calendar in their order.
DayBefore(a, b) ==
    \/ YearOf(a) < YearOf(b)
    \/ YearOf(a) = YearOf(b) /\ MonthOf(a) < MonthOf(b)
    \/ YearOf(a) = YearOf(b) /\ MonthOf(a) = MonthOf(b) /\ DateOf(a) < DateOf(b)

InWindow(day, year, month) ==
    IF IsParam(year, 1, 9999) /\ IsParam(month, 1, 12)
    THEN YearOf(day) = DigitsValue(year.s) /\ MonthOf(day) = DigitsValue(month.s)
    ELSE IF IsParam(year, 1, 9999) THEN YearOf(day) = DigitsValue(year.s)
    ELSE TRUE

\* The windows the property speaks of.
WindowStated(year, month) ==
    \/ IsParam(year, 1, 9999) /\ IsParam(month, 1, 12)
    \/ IsParam(year, 1, 9999) /\ month = Undefined
    \/ year = Undefined /\ month = Undefined

C13_Search ==
    (last.op = "search" /\ last.res.ok /\ WindowStated(last.year, last.month)) =>
        LET rows == last.res.rows
        IN  /\ {rows[i] : i \in 1..Len(rows)} =
                  {r \in clients :
                      /\ Contains(Lower(r.name), Lower(Trim(JsString(last.name))))
                      /\ InWindow(r.day, last.year, last.month)}
            /\ \A i, j \in 1..Len(rows) :
                  i < j => \/ DayBefore(rows[i].day, rows[j].day)
                           \/ (rows[i].day = rows[j].day /\ rows[i].id < rows[j].id)

(***************************************************************************)
(* C14.  A create, update or delete that reports a failure leaves the      *)
(* stored bookings and all their fields as they were: the store changes    *)
(* only in a step that answers a request with success, so no step of a     *)
(* request that ends in InvalidFormat, InvalidDate, Weekend, Required,     *)
(* WrongType, CapacityExceeded, InvalidId, NoChanges or NotFound changes   *)
(* it, and each of these answers is one of those failures.                 *)
(***************************************************************************)
AnsweredOk(p) == pc[p] # "idle" /\ pc'[p] = "idle" /\ last'.res.ok

Failures ==
    {Fail(400, e) : e \in {ErrRequired, ErrPhoneType, ErrNotesType,
                           ErrNameRequired, ErrFormat, ErrInvalidDate,
                           ErrWeekend, ErrCapacity, ErrInvalidId, ErrNoChanges}}
    \cup {Fail(404, ErrNotFound)}

C14_FailuresChangeNothing ==
    [][/\ (~\E p \in Procs : AnsweredOk(p)) => clients' = clients
       /\ (last'.op \in {"create", "update", "delete"} /\ ~last'.res.ok) =>
             last'.res \in Failures]_vars

\* An update with a valid name for an id that no booking has any more is
\* answered NotFound on a day that holds ten bookings.
C14_Witness ==
    /\ last.op = "update"
    /\ last.res = Fail(404, ErrNotFound)
    /\ last.req.name = Str(Padded(NameB))
    /\ CountDay(clients, DayMon) = MaxPerDay

(***************************************************************************)
(* C15.  A successful update of booking X changes only the fields the      *)
(* request supplies, each replaced by its validated, trimmed value (a      *)
(* phone or notes that is null or blank by null); each of name, phone and  *)
(* notes that is omitted keeps its value; X's id, day and created_at are   *)
(* unchanged; every other booking is unchanged and none is added or        *)
(* removed.                                                                *)
(***************************************************************************)
Supplied(v, old, new) == IF v.t = "undefined" THEN old ELSE new

NormalText(v) == IF v.t = "null" \/ ~HasNonWs(v.s) THEN Null ELSE Str(Trim(v.s))

C15_UpdateFrame ==
    [][\A p \in Procs :
          (Answered(p, "update_exec") /\ last'.res.ok) =>
              /\ Ids(clients') = Ids(clients)
              /\ Cardinality(clients') = Cardinality(clients)
              /\ \A r \in clients : r.id # loc[p].id => r \in clients'
              /\ \A r \in clients :
                    r.id = loc[p].id =>
                        [id |-> r.id, day |-> r.day, created_at |-> r.created_at,
                         name |-> Supplied(loc[p].req.name, r.name,
                                           Trim(loc[p].req.name.s)),
                         phone |-> Supplied(loc[p].req.phone, r.phone,
                                            NormalText(loc[p].req.phone)),
                         notes |-> Supplied(loc[p].req.notes, r.notes,
                                            NormalText(loc[p].req.notes))]
                            \in clients']_vars

\* An update of the notes alone has left the name and the phone of its
\* booking, and has left another booking that was created at another time.
C15_Witness ==
    /\ last.op = "update" /\ last.res.ok
    /\ last.req = Fields(Undefined, Undefined, Str(Padded(DigitsOf(7))))
    /\ \E r, o \in clients :
          /\ r.id = last.res.id
          /\ r.name = NameB
          /\ r.phone = Str(DigitsOf(7))
          /\ r.notes = Str(DigitsOf(7))
          /\ o.id # r.id
          /\ o.notes = Null
          /\ o.created_at # r.created_at

(***************************************************************************)
(* C16.  In every reachable state the phone and the notes of every stored  *)
(* booking are each null or a string of at least one character that        *)
(* neither begins nor ends with whitespace; a phone or notes that is       *)
(* absent, null, empty or all whitespace in a successful create, or null,  *)
(* empty or all whitespace in a successful update, is stored as null.      *)
(* (Requests run one at a time, so the booking a request wrote is as the   *)
(* request left it while the request is the last one answered.)            *)
(***************************************************************************)
IsNormalText(v) ==
    \/ v = Null
    \/ /\ v.t = "string"
       /\ v.s # <<>>
       /\ ~IsWs(v.s[1])
       /\ ~IsWs(v.s[Len(v.s)])

\* Absent, null, empty or all whitespace.
IsNoText(v) ==
    v.t \in {"undefined", "null"} \/ (v.t = "string" /\ ~HasNonWs(v.s))

C16_TextNormalized ==
    /\ \A r \in clients : IsNormalText(r.phone) /\ IsNormalText(r.notes)
    /\ (last.op = "create" /\ last.res.ok) =>
          \E r \in clients :
             /\ r.id = last.res.row.id
             /\ IsNoText(last.req.phone) => r.phone = Null
             /\ IsNoText(last.req.notes) => r.notes = Null
    /\ (last.op = "update" /\ last.res.ok) =>
          \E r \in clients :
             /\ r.id = last.res.id
             /\ (last.req.phone.t # "undefined" /\ IsNoText(last.req.phone)) =>
                   r.phone = Null
             /\ (last.req.notes.t # "undefined" /\ IsNoText(last.req.notes)) =>
                   r.notes = Null

\* An update with a phone of spaces has cleared the phone of a booking that
\* was created with padded notes, which are stored trimmed.
C16_Witness ==
    /\ last.op = "update" /\ last.res.ok
    /\ last.req.phone = Str(Blank)
    /\ \E r \in clients :
          r.id = last.res.id /\ r.phone = Null /\ r.notes = Str(DigitsOf(7))

(***************************************************************************)
(* C17.  With requests run one at a time (SpecFree): when a day held 10    *)
(* bookings, a delete of one of them succeeded, and the next request       *)
(* answered is a valid create for that day, the create succeeds and its    *)
(* booking is stored, so the day holds 10 again.  The delete is the answer *)
(* before the create, so no other create lies between them.                *)
(***************************************************************************)
C17_DeletionFreesCapacity ==
    (/\ last.op = "create" /\ CreateError(last.req) = ""
     /\ prev.answer.op = "delete" /\ prev.answer.res.ok
     /\ \E r \in prev.before :
           /\ r.id = prev.answer.res.id
           /\ r.day = last.req.day.s
           /\ CountDay(prev.before, r.day) = 10) =>
        /\ last.res.ok
        /\ last.res.row \in clients
        /\ last.res.row.day = last.req.day.s
        /\ CountDay(clients, last.req.day.s) = 10

\* A create has succeeded right after the delete of a booking of its day,
\* which held 10 bookings, while the other day holds a booking.
C17_Witness ==
    /\ last.op = "create" /\ last.res.ok
    /\ prev.answer.op = "delete" /\ prev.answer.res.ok
    /\ CountDay(prev.before, last.res.row.day) = 10
    /\ prev.answer.res.id \notin Ids(prev.lastBefore)
    /\ CountDay(prev.lastBefore, last.res.row.day) = 9
    /\ \E r \in clients : r.day # last.res.row.day

(***************************************************************************)
(* C18.  With requests run one at a time (SpecRead), after any sequence of *)
(* creates and deletes: a get for a day returns exactly the stored         *)
(* bookings of that day, each once, by id ascending, and that is the order *)
(* in which those bookings were inserted.                                  *)
(***************************************************************************)
C18_GetOrder ==
    (last.op = "get" /\ last.res.ok) =>
        LET rows == last.res.rows
            ids == [i \in 1..Len(rows) |-> rows[i].id]
        IN  /\ {rows[i] : i \in 1..Len(rows)} =
                  {r \in clients : r.day = last.day.s}
            /\ \A i, j \in 1..Len(rows) : i < j => rows[i].id < rows[j].id
            /\ ids = SelectSeq(inserted, LAMBDA x : x \in SeqIds(rows))

\* A get returns the first and the third booking, after the delete of the
\* second.
C18_Witness ==
    /\ last.op = "get" /\ last.res.ok
    /\ Len(last.res.rows) = 2
    /\ last.res.rows[1].id = 1
    /\ last.res.rows[2].id = 3
    /\ 2 \in assigned
    /\ 2 \notin Ids(clients)

(***************************************************************************)
(* C19.  A summary of a month (year 0001..9999, month 1..12) returns one   *)
(* row for each day of that month that has a stored booking and no other   *)
(* row, in ascending order of day; in each row count is the length of the  *)
(* clients list, and the clients list holds that day's bookings, each      *)
(* once, by id ascending, as id, name, phone and notes with a null phone   *)
(* or notes as the empty string.  The summary of December 9999 returns no  *)
(* row for a day of that month that has a booking (see C12).               *)
(***************************************************************************)
Rendered(r) ==
    [id |-> r.id, name |-> r.name,
     phone |-> IF r.phone = Null THEN <<>> ELSE r.phone.s,
     notes |-> IF r.notes = Null THEN <<>> ELSE r.notes.s]

RowWellFormed(row) ==
    /\ row.count = Len(row.clients)
    /\ {row.clients[j] : j \in 1..Len(row.clients)} =
          {Rendered(r) : r \in {x \in clients : x.day = row.day}}
    /\ \A i, j \in 1..Len(row.clients) :
          i < j => row.clients[i].id < row.clients[j].id

C19_SummaryRows ==
    (/\ last.op = "summary" /\ last.res.ok
     /\ IsParam(last.year, 1, 9999) /\ IsParam(last.month, 1, 12)) =>
        LET rows == last.res.rows
        IN  /\ {rows[i].day : i \in 1..Len(rows)} =
                  {r.day : r \in OfMonth(clients, DigitsValue(last.year.s),
                                         DigitsValue(last.month.s))}
            /\ \A i, j \in 1..Len(rows) :
                  i < j => DayBefore(rows[i].day, rows[j].day)
            /\ \A i \in 1..Len(rows) : RowWellFormed(rows[i])

(***************************************************************************)
(* C20.  The number of bookings of a day changes only through create and   *)
(* delete, whatever the interleaving (SpecAll): the step that answers a    *)
(* successful create for day d adds one booking of d and leaves every      *)
(* stored booking as it was; the step that answers a successful delete     *)
(* removes the one booking with that id and leaves every other booking as  *)
(* it was; every other step, of update, get, search, summary, or of a      *)
(* create or delete that does not succeed in it, leaves the number of      *)
(* bookings of every day as it was.                                        *)
(***************************************************************************)
DaysOf(tbl) == {r.day : r \in tbl}

C20_CountFrame ==
    [][/\ \A p \in Procs :
             (Answered(p, "create_insert") /\ last'.res.ok) =>
                 /\ clients \subseteq clients'
                 /\ clients' \ clients = {last'.res.row}
                 /\ last'.res.row.day = loc[p].day
                 /\ CountDay(clients', loc[p].day) =
                       CountDay(clients, loc[p].day) + 1
                 /\ \A d \in DaysOf(clients) \ {loc[p].day} :
                       CountDay(clients', d) = CountDay(clients, d)
       /\ \A p \in Procs :
             (Answered(p, "delete_exec") /\ last'.res.ok) =>
                 \E r \in clients :
                    /\ r.id = loc[p].id
                    /\ clients' = clients \ {r}
                    /\ CountDay(clients', r.day) = CountDay(clients, r.day) - 1
       /\ (~\E p \in Procs :
               /\ Answered(p, "create_insert") \/ Answered(p, "delete_exec")
               /\ last'.res.ok) =>
             \A d \in DaysOf(clients) \cup DaysOf(clients') :
                CountDay(clients', d) = CountDay(clients, d)]_vars

\* A delete has succeeded and has left the booking of the other day, which
\* an update had renamed.
C20_Witness ==
    /\ last.op = "delete" /\ last.res.ok
    /\ \E r \in clients : r.day = DayTue /\ r.name = NameB /\ r.id > last.res.id
    /\ CountDay(clients, DayMon) = 0

(***************************************************************************)
(* C21.  Every create, update and delete request receives exactly one      *)
(* response, provided each store call returns or throws (SpecLive, whose   *)
(* fairness is that provision): a handler that is running ends; a handler  *)
(* that has ended has sent one response and no handler sends more than     *)
(* one; and the response is a success, an input error, the capacity        *)
(* refusal, not-found or a store error.                                    *)
(***************************************************************************)
InputErrors ==
    {ErrRequired, ErrPhoneType, ErrNotesType, ErrNameRequired, ErrFormat,
     ErrInvalidDate, ErrWeekend, ErrInvalidId, ErrNoChanges, ErrConvert}

KnownResponse(res) ==
    \/ res.status = 200 /\ res.ok
    \/ res.status = 400 /\ res.error \in InputErrors \cup {ErrCapacity, ErrStore}
    \/ res.status = 404 /\ res.error = ErrNotFound
    \/ res.status = 500 /\ res.error = ErrStore

C21_OneResponse ==
    /\ \A p \in Procs :
          /\ track[p].sent <= 1
          /\ track[p].state = "ended" => track[p].sent = 1
    /\ last.op \in {"create", "update", "delete"} => KnownResponse(last.res)

C21_HandlersEnd ==
    \A p \in Procs : (track[p].state = "running") ~> (track[p].state = "ended")

C21_EveryRequestAnswered == []C21_OneResponse /\ C21_HandlersEnd

=============================================================================
